---- MODULE Spec2Model ----
(***************************************************************************)
(* Model of `pixi project export conda-explicit-spec`                      *)
(* (src/src/cli/project/export/conda_explicit_spec.rs).                    *)
(*                                                                         *)
(* Text (String, Url::as_str, OsStr) is a sequence of tokens; a token is a *)
(* TLA+ string standing for a run of characters.  Option<T> is a sequence  *)
(* of length 0 (None) or 1 (Some).                                         *)
(***************************************************************************)
EXTENDS Integers, Sequences, FiniteSets, TLC

\* ------------------------------------------------------------------ bounds

\* Longest package list of one environment/platform slice of the lock.
MaxPackages == 2

\* Longest location text (in tokens) of a PyPI package fed to the renderer.
MaxLocLen == 3

\* ------------------------------------------------------------------ Option

None == <<>>

Some(x) == <<x>>

IsSome(o) == Len(o) = 1

Unwrap(o) == o[1]

\* ------------------------------------------------------------------ text

RECURSIVE Concat(_)
\* Concatenation of a sequence of texts.
Concat(ss) == IF ss = <<>> THEN <<>> ELSE Head(ss) \o Concat(Tail(ss))

\* Number of occurrences of token t in text s.
Count(s, t) == Cardinality({i \in 1..Len(s) : s[i] = t})

\* s begins with pat.
StartsWith(s, pat) == Len(s) >= Len(pat) /\ SubSeq(s, 1, Len(pat)) = pat

\* All texts of length lo..hi over alphabet A.
Texts(A, lo, hi) == UNION {[1..n -> A] : n \in lo..hi}

\* ------------------------------------------------------------------ digests

\* Digit characters of `{:x}`.
HexDigits == <<"0", "1", "2", "3", "4", "5", "6", "7",
               "8", "9", "a", "b", "c", "d", "e", "f">>

RECURSIVE LowerHex(_)
\* format!("{:x}", hash): two lowercase hex digits per byte, in order.
LowerHex(bytes) ==
    IF bytes = <<>> THEN <<>>
    ELSE <<HexDigits[(Head(bytes) \div 16) + 1],
           HexDigits[(Head(bytes) % 16) + 1]>> \o LowerHex(Tail(bytes))

\* Digests (byte strings) carried by package records.
DigestA == <<10, 255>>

DigestB == <<0, 171>>

DigestC == <<222, 173>>

\* ------------------------------------------------------------------ URLs

\* url::Url: its text up to the fragment, and the optional fragment.
Url(text, fragment) == [text |-> text, fragment |-> fragment]

\* Url::set_fragment(Some(f)): replaces whatever fragment there was.
set_fragment(url, f) == [url EXCEPT !.fragment = Some(f)]

\* Url::as_str
as_str(url) ==
    url.text \o (IF IsSome(url.fragment) THEN <<"#">> \o Unwrap(url.fragment) ELSE <<>>)

\* ------------------------------------------------------------------ packages

\* rattler_lock::CondaPackage: package_record().name, url(), package_record().md5
CondaPackage(name, url, md5) ==
    [kind |-> "Conda", name |-> name, url |-> url, md5 |-> md5]

\* rattler_lock::PackageHashes
Sha256(h) == [variant |-> "Sha256", md5 |-> <<>>, sha256 |-> h]

Md5Sha256(m, h) == [variant |-> "Md5Sha256", md5 |-> m, sha256 |-> h]

Md5(m) == [variant |-> "Md5", md5 |-> m, sha256 |-> <<>>]

\* rattler_lock::UrlOrPath.  A Url always has text; a Path has text only when
\* its OsStr is valid UTF-8 (to_str() is Some).
UrlLocation(text) == [kind |-> "Url", text |-> text, utf8 |-> TRUE]

PathLocation(text, utf8) == [kind |-> "Path", text |-> text, utf8 |-> utf8]

\* rattler_lock::PypiPackage: url(), is_editable(), data().package.hash
PypiPackage(location, editable, hash) ==
    [kind |-> "Pypi", location |-> location, editable |-> editable, hash |-> hash]

IsConda(pkg) == pkg.kind = "Conda"

IsPypi(pkg) == pkg.kind = "Pypi"

\* ------------------------------------------------------------------ errors

\* The failures `execute` returns (miette reports), by the spec's taxonomy:
\*   EnvironmentError    environment_from_name_or_env_var failed      (line 140)
\*   LockError           update_lock_file failed                      (line 150)
\*   NotFoundError       "unknown environment" / "platform not found" (153-170)
\*   ConfigurationError  "PyPI packages are not supported"            (184-187)
\*   IntegrityError      "Package {} does not contain an md5 hash"    (54-57)
\*   IoError             "Could not write ... file"                   (81, 134)
Err(type, subject) == [kind |-> "Err", error |-> type, subject |-> subject]

\* Ok(())
OkUnit == [kind |-> "Ok", error |-> "", subject |-> ""]

\* A panic unwinds out of `execute`: no Result is returned.
Panic(message) == [kind |-> "Panic", error |-> message, subject |-> ""]

\* ------------------------------------------------------------------ build_explicit_spec

RECURSIVE BuildEntriesDefaultDigest(_, _)
\* A build that substitutes an empty digest for a missing md5 (not the code).
BuildEntriesDefaultDigest(cps, acc) ==
    IF cps = <<>> THEN [error |-> None, packages |-> acc]
    ELSE LET cp == Head(cps)
             hash == IF IsSome(cp.md5) THEN Unwrap(cp.md5) ELSE <<>>
         IN  BuildEntriesDefaultDigest(
                 Tail(cps),
                 Append(acc, [url |-> set_fragment(cp.url, LowerHex(hash))]))

RECURSIVE BuildEntriesPrepend(_, _)
\* A build that pushes each entry at the front (not the code).
BuildEntriesPrepend(cps, acc) ==
    IF cps = <<>> THEN [error |-> None, packages |-> acc]
    ELSE LET cp == Head(cps)
         IN  IF ~IsSome(cp.md5)
             THEN [error |-> Some(Err("IntegrityError", cp.name)), packages |-> <<>>]
             ELSE BuildEntriesPrepend(
                      Tail(cps),
                      <<[url |-> set_fragment(cp.url, LowerHex(Unwrap(cp.md5)))]>> \o acc)

RECURSIVE BuildEntries(_, _)
\* The `for cp in conda_packages` loop: the first package without md5 ends
\* the build with the error (`ok_or(..)?`); otherwise the entry is the url
\* with its fragment set to the lowercase hex md5, pushed at the back.
BuildEntries(cps, acc) ==
    IF cps = <<>> THEN [error |-> None, packages |-> acc]
    ELSE LET cp == Head(cps)
         IN  IF ~IsSome(cp.md5)
             THEN [error |-> Some(Err("IntegrityError", cp.name)), packages |-> <<>>]
             ELSE BuildEntries(
                      Tail(cps),
                      Append(acc, [url |-> set_fragment(cp.url, LowerHex(Unwrap(cp.md5)))]))

\* miette::Result<ExplicitEnvironmentSpec>: `error` is Some on Err, `spec`
\* is Some on Ok.
build_explicit_spec(platform, conda_packages) ==
    LET r == BuildEntries(conda_packages, <<>>)
    IN  IF IsSome(r.error)
        THEN [error |-> r.error, spec |-> None]
        ELSE [error |-> None,
              spec  |-> Some([platform |-> Some(platform), packages |-> r.packages])]

\* ------------------------------------------------------------------ write_explicit_spec

\* ExplicitEnvironmentSpec::to_spec_string (rattler_conda_types): the platform
\* comment when there is a platform, the @EXPLICIT marker, one url per line.
to_spec_string(spec) ==
    (IF IsSome(spec.platform)
        THEN <<"# platform: ">> \o Unwrap(spec.platform) \o <<"\n">>
        ELSE <<>>)
    \o <<"@EXPLICIT", "\n">>
    \o Concat([i \in 1..Len(spec.packages) |-> as_str(spec.packages[i].url) \o <<"\n">>])

\* The text write_explicit_spec hands to fs::write: the provenance comment
\* (its back quotes left out of the token), then the serialized spec.
explicit_spec_text(exp_env_spec) ==
    <<"# Generated by pixi project export", "\n">> \o to_spec_string(exp_env_spec)

\* ------------------------------------------------------------------ write_pypi_requirements

\* The internal direct-reference prefix, "direct+".
DirectPrefix == <<"direct+">>

RECURSIVE trim_start_matches(_, _)
\* str::trim_start_matches: all prefixes that match the pattern, repeatedly
\* removed.
trim_start_matches(s, pat) ==
    IF pat # <<>> /\ StartsWith(s, pat)
    THEN trim_start_matches(SubSeq(s, Len(pat) + 1, Len(s)), pat)
    ELSE s

\* The digest get_pypi_hash_str would take if it preferred md5 (not the code).
get_pypi_hash_str_md5_first(package_data_hash) ==
    IF IsSome(package_data_hash)
    THEN LET hashes == Unwrap(package_data_hash)
         IN  Some(IF hashes.variant = "Sha256"
                  THEN <<"--hash=", "sha256:">> \o LowerHex(hashes.sha256)
                  ELSE <<"--hash=", "md5:">> \o LowerHex(hashes.md5))
    ELSE None

\* get_pypi_hash_str: Sha256 and Md5Sha256 give the sha256 digest, Md5 the md5.
get_pypi_hash_str(package_data_hash) ==
    IF IsSome(package_data_hash)
    THEN LET hashes == Unwrap(package_data_hash)
         IN  Some(IF hashes.variant \in {"Sha256", "Md5Sha256"}
                  THEN <<"--hash=", "sha256:">> \o LowerHex(hashes.sha256)
                  ELSE <<"--hash=", "md5:">> \o LowerHex(hashes.md5))
    ELSE None

\* A lossy conversion that always yields text (not the code).
location_to_str_lossy(location) == Some(location.text)

\* `path.as_os_str().to_str()`, or the text of the url.
location_to_str(location) ==
    IF location.kind = "Url" \/ location.utf8 THEN Some(location.text) ELSE None

\* Locations get a hash whether url or path (not the code).
include_hash_always(location) == TRUE

\* The second component of the `match p.url()`: hashes only for urls.
include_hash(location) == location.kind = "Url"

\* One pass of the loop body for a package whose location has text: the line
\* pushed onto `reqs`.
requirement_line(p) ==
    LET s    == trim_start_matches(Unwrap(location_to_str(p.location)), DirectPrefix)
        h    == get_pypi_hash_str(p.hash)
        hash == IF include_hash(p.location) /\ IsSome(h)
                THEN <<" ">> \o Unwrap(h)
                ELSE <<>>
    IN  (IF p.editable THEN <<"-e ">> ELSE <<>>) \o s \o hash \o <<"\n">>

RECURSIVE render_requirements_reversed(_, _)
\* A loop that puts each new line before the earlier ones (not the code).
render_requirements_reversed(packages, reqs) ==
    IF packages = <<>> THEN [panicked |-> FALSE, reqs |-> reqs]
    ELSE LET p == Head(packages)
         IN  IF ~IsSome(location_to_str(p.location))
             THEN [panicked |-> TRUE, reqs |-> reqs]
             ELSE render_requirements_reversed(Tail(packages), requirement_line(p) \o reqs)

RECURSIVE render_requirements(_, _)
\* The `for p in packages` loop of write_pypi_requirements: a path that is not
\* UTF-8 panics (`unwrap_or_else(|| panic!(..))`) before anything is written.
render_requirements(packages, reqs) ==
    IF packages = <<>> THEN [panicked |-> FALSE, reqs |-> reqs]
    ELSE LET p == Head(packages)
         IN  IF ~IsSome(location_to_str(p.location))
             THEN [panicked |-> TRUE, reqs |-> reqs]
             ELSE render_requirements(Tail(packages), reqs \o requirement_line(p))

\* ------------------------------------------------------------------ inputs

\* rattler_conda_types::Platform, by its Display text.
Linux64 == <<"linux", "-", "64">>

OsxArm64 == <<"osx", "-", "arm64">>

Platforms == {Linux64, OsxArm64}

\* Environment names of the project (lowercase letters, digits and dashes).
DefaultEnv == <<"default">>

Arm64Env == <<"arm64", "-", "default">>

EnvNames == {DefaultEnv, Arm64Env}

\* A name the project does not define.
GhostEnv == <<"ghost">>

\* Args as clap can build them: --write-pypi-requirements conflicts with
\* --ignore-pypi-errors, so the two are never both set.
ArgsSet ==
    {a \in [environment : {None} \cup {Some(e) : e \in EnvNames \cup {GhostEnv}},
            platform : {None, Some(OsxArm64)},
            ignore_pypi_errors : BOOLEAN,
            write_pypi_requirements : BOOLEAN] :
        ~(a.ignore_pypi_errors /\ a.write_pypi_requirements)}

\* Conda packages of a lock: one plain, one whose url already has a fragment
\* and a direct+ scheme prefix, one without md5.
CondaNumpy ==
    CondaPackage("numpy", Url(<<"https://conda/", "numpy.conda">>, None), Some(DigestA))

CondaZlib ==
    CondaPackage("zlib",
                 Url(<<"direct+", "https://conda/", "zlib.conda">>, Some(<<"old">>)),
                 Some(DigestB))

CondaNoMd5 ==
    CondaPackage("nomd5", Url(<<"https://conda/", "numpy.conda">>, None), None)

CondaPackages == {CondaNumpy, CondaZlib, CondaNoMd5}

\* PyPI packages of a lock.
PypiWheel ==
    PypiPackage(UrlLocation(<<"direct+", "https://x/", "pkg">>), FALSE,
                Some(Md5Sha256(DigestA, DigestC)))

PypiUnhashed == PypiPackage(UrlLocation(<<"https://x/", "pkg">>), TRUE, None)

PypiEditablePath == PypiPackage(PathLocation(<<"./", "pkg">>, TRUE), TRUE, None)

PypiNonUtf8Path == PypiPackage(PathLocation(<<>>, FALSE), FALSE, Some(Sha256(DigestC)))

PypiPackages == {PypiWheel, PypiUnhashed, PypiEditablePath, PypiNonUtf8Path}

\* Package lists of one environment/platform slice.
PackageLists == Texts(CondaPackages \cup PypiPackages, 0, MaxPackages)

\* rattler_lock::LockFile as `execute` reads it: the environments it has, the
\* platforms they have, and the packages of each such slice.
LockFile(environments, platforms, packages) ==
    [environments |-> environments, platforms |-> platforms, packages |-> packages]

\* Lock snapshots update_lock_file can return, for package lists `lists`.
Locks(lists) ==
    {LockFile({DefaultEnv}, {Linux64}, <<>>)}
    \cup {LockFile(EnvNames, Platforms, l) : l \in lists}

\* Project::environment_from_name_or_env_var: the named environment, the
\* default one when no name is given, an error when the project has none of
\* that name.
environment_from_name_or_env_var(name) ==
    IF ~IsSome(name) THEN Some(DefaultEnv)
    ELSE IF Unwrap(name) \in EnvNames THEN name
    ELSE None

\* Environment::best_platform
best_platform(environment) == Linux64

\* LockFile::environment(name), as presence
lock_has_environment(lock, name) == name \in lock.environments

\* Environment::packages(platform): Some(list) or None
lock_packages(lock, platform) ==
    IF platform \in lock.platforms THEN Some(lock.packages) ELSE None

\* ------------------------------------------------------------------ policy

\* A policy that drops PyPI packages when no flag says what to do (not the code).
pypi_policy_default_ignore(a) ==
    IF a.write_pypi_requirements THEN "collect" ELSE "ignore"

\* Lines 179-188: what `execute` does with a PyPI package: warn and drop it,
\* collect it for the requirements file, or bail.
pypi_policy(a) ==
    IF a.ignore_pypi_errors THEN "ignore"
    ELSE IF a.write_pypi_requirements THEN "collect"
    ELSE "bail"

\* Requirements rendered whatever the flag (not the code).
after_write_spec_always_render(a) == "RenderRequirements"

\* Line 206: the step after the spec is written.
after_write_spec(a) ==
    IF a.write_pypi_requirements THEN "RenderRequirements" ELSE "Done"

\* ------------------------------------------------------------------ output paths

\* A target that leaves the environment name out (not the code).
conda_target_platform_only(platform, environment) ==
    <<"conda-">> \o platform \o <<".lock">>

\* cwd().join(format!("conda-{}-{}.lock", platform, environment.name()))
conda_target(platform, environment) ==
    <<"conda-">> \o platform \o <<"-">> \o environment \o <<".lock">>

\* cwd().join(format!("requirements-{}-{}.txt", platform, environment.name()))
pypi_target(platform, environment) ==
    <<"requirements-">> \o platform \o <<"-">> \o environment \o <<".txt">>

\* ------------------------------------------------------------------ file system

\* The content of the file at `path`, None when there is no such file.
FileAt(fs, path) == IF path \in DOMAIN fs THEN Some(fs[path]) ELSE None

\* `fs` with the file at `path` created or replaced, holding `text`.
FilePut(fs, path, text) ==
    [q \in (DOMAIN fs) \cup {path} |-> IF q = path THEN text ELSE fs[q]]

\* What fs::write can do: write everything; fail to create the file, leaving
\* the disk as it was; or create/truncate the file and fail before any
\* content lands (only when there is content to write).
FsWriteOutcomes(contents) ==
    {"ok", "create_failed"} \cup (IF contents # <<>> THEN {"write_failed"} ELSE {})

\* std::fs::write(path, contents) with outcome `io`.
fs_write(fs, path, contents, io) ==
    CASE io = "ok" -> FilePut(fs, path, contents)
      [] io = "create_failed" -> fs
      [] io = "write_failed" -> FilePut(fs, path, <<>>)

\* ------------------------------------------------------------------ state

\* Invocations of `execute` (processes run from the same working directory).
Invocations == {1, 2}

VARIABLES
    pc,                            \* [i]: the step invocation i is at
    args,                          \* [i]: Option<Args>, bound when execute is entered
    environment,                   \* [i]: Option<name of the resolved environment>
    platform,                      \* [i]: Option<Platform>
    lock_file,                     \* [i]: Option<LockFile>
    packages,                      \* [i]: Option<package list of the slice>
    cursor,                        \* [i]: index of the next package the loop takes
    conda_packages_from_lockfile,  \* [i]: Vec<CondaPackage>
    pypi_packages_from_lockfile,   \* [i]: Vec<PypiPackage>
    warnings,                      \* [i]: number of tracing::warn! events
    ees,                           \* [i]: Option<ExplicitEnvironmentSpec>
    reqs,                          \* [i]: Option<String>, the rendered requirements
    outcome,                       \* [i]: None while running, then Some(Ok/Err/Panic)
    files                          \* the working directory: path -> content

vars ==
    <<pc, args, environment, platform, lock_file, packages, cursor,
      conda_packages_from_lockfile, pypi_packages_from_lockfile, warnings,
      ees, reqs, outcome, files>>

Init ==
    /\ pc = [i \in Invocations |-> "ResolveEnvironment"]
    /\ args = [i \in Invocations |-> None]
    /\ environment = [i \in Invocations |-> None]
    /\ platform = [i \in Invocations |-> None]
    /\ lock_file = [i \in Invocations |-> None]
    /\ packages = [i \in Invocations |-> None]
    /\ cursor = [i \in Invocations |-> 1]
    /\ conda_packages_from_lockfile = [i \in Invocations |-> <<>>]
    /\ pypi_packages_from_lockfile = [i \in Invocations |-> <<>>]
    /\ warnings = [i \in Invocations |-> 0]
    /\ ees = [i \in Invocations |-> None]
    /\ reqs = [i \in Invocations |-> None]
    /\ outcome = [i \in Invocations |-> None]
    /\ files = <<>>

\* `execute` returns `result` (or unwinds): the invocation is over.
Finish(i, result) ==
    /\ pc' = [pc EXCEPT ![i] = "Done"]
    /\ outcome' = [outcome EXCEPT ![i] = Some(result)]

\* The invocation moves on to step `next`.
Goto(i, next) ==
    /\ pc' = [pc EXCEPT ![i] = next]
    /\ UNCHANGED outcome

\* ------------------------------------------------------------------ execute

\* Line 140: execute is entered with `a`; the environment is resolved, `?`
\* returning the error.
ResolveEnvironment(i, a) ==
    /\ pc[i] = "ResolveEnvironment"
    /\ args' = [args EXCEPT ![i] = Some(a)]
    /\ LET r == environment_from_name_or_env_var(a.environment)
       IN  IF IsSome(r)
           THEN /\ environment' = [environment EXCEPT ![i] = r]
                /\ Goto(i, "ResolvePlatform")
           ELSE /\ UNCHANGED environment
                /\ Finish(i, Err("NotFoundError", "project environment"))
    /\ UNCHANGED <<platform, lock_file, packages, cursor,
                   conda_packages_from_lockfile, pypi_packages_from_lockfile,
                   warnings, ees, reqs, files>>

\* Line 142: args.platform.unwrap_or_else(|| environment.best_platform())
ResolvePlatform(i) ==
    /\ pc[i] = "ResolvePlatform"
    /\ platform' =
          [platform EXCEPT ![i] =
              IF IsSome(Unwrap(args[i]).platform)
              THEN Unwrap(args[i]).platform
              ELSE Some(best_platform(Unwrap(environment[i])))]
    /\ Goto(i, "ObtainLock")
    /\ UNCHANGED <<args, environment, lock_file, packages, cursor,
                   conda_packages_from_lockfile, pypi_packages_from_lockfile,
                   warnings, ees, reqs, files>>

\* Lines 144-151: update_lock_file(..).await? gives the lock `r`, or fails.
ObtainLock(i, r) ==
    /\ pc[i] = "ObtainLock"
    /\ IF IsSome(r)
       THEN /\ lock_file' = [lock_file EXCEPT ![i] = r]
            /\ Goto(i, "SelectSlice")
       ELSE /\ UNCHANGED lock_file
            /\ Finish(i, Err("LockError", ""))
    /\ UNCHANGED <<args, environment, platform, packages, cursor,
                   conda_packages_from_lockfile, pypi_packages_from_lockfile,
                   warnings, ees, reqs, files>>

\* Lines 153-170: the environment of the lock, then its packages for the
\* platform; either missing is an error.
SelectSlice(i) ==
    /\ pc[i] = "SelectSlice"
    /\ LET lock == Unwrap(lock_file[i])
           slice == lock_packages(lock, Unwrap(platform[i]))
       IN  IF ~lock_has_environment(lock, Unwrap(environment[i]))
           THEN /\ UNCHANGED packages
                /\ Finish(i, Err("NotFoundError", "lock environment"))
           ELSE IF ~IsSome(slice)
           THEN /\ UNCHANGED packages
                /\ Finish(i, Err("NotFoundError", "lock platform"))
           ELSE /\ packages' = [packages EXCEPT ![i] = slice]
                /\ Goto(i, "Classify")
    /\ UNCHANGED <<args, environment, platform, lock_file, cursor,
                   conda_packages_from_lockfile, pypi_packages_from_lockfile,
                   warnings, ees, reqs, files>>

\* Lines 175-191: one turn of `for package in packages`, or its end.
Classify(i) ==
    /\ pc[i] = "Classify"
    /\ LET list == Unwrap(packages[i])
           a    == Unwrap(args[i])
       IN  IF cursor[i] > Len(list)
           THEN /\ Goto(i, "BuildSpec")
                /\ UNCHANGED <<cursor, conda_packages_from_lockfile,
                               pypi_packages_from_lockfile, warnings>>
           ELSE LET package == list[cursor[i]]
                IN  IF IsConda(package)
                    THEN /\ conda_packages_from_lockfile' =
                               [conda_packages_from_lockfile EXCEPT
                                   ![i] = Append(@, package)]
                         /\ cursor' = [cursor EXCEPT ![i] = @ + 1]
                         /\ Goto(i, "Classify")
                         /\ UNCHANGED <<pypi_packages_from_lockfile, warnings>>
                    ELSE IF pypi_policy(a) = "ignore"
                    THEN /\ warnings' = [warnings EXCEPT ![i] = @ + 1]
                         /\ cursor' = [cursor EXCEPT ![i] = @ + 1]
                         /\ Goto(i, "Classify")
                         /\ UNCHANGED <<conda_packages_from_lockfile,
                                        pypi_packages_from_lockfile>>
                    ELSE IF pypi_policy(a) = "collect"
                    THEN /\ pypi_packages_from_lockfile' =
                               [pypi_packages_from_lockfile EXCEPT
                                   ![i] = Append(@, package)]
                         /\ cursor' = [cursor EXCEPT ![i] = @ + 1]
                         /\ Goto(i, "Classify")
                         /\ UNCHANGED <<conda_packages_from_lockfile, warnings>>
                    ELSE /\ Finish(i, Err("ConfigurationError", ""))
                         /\ UNCHANGED <<cursor, conda_packages_from_lockfile,
                                        pypi_packages_from_lockfile, warnings>>
    /\ UNCHANGED <<args, environment, platform, lock_file, packages,
                   ees, reqs, files>>

\* Line 193: build_explicit_spec(platform, &conda_packages_from_lockfile)?
BuildSpec(i) ==
    /\ pc[i] = "BuildSpec"
    /\ LET r == build_explicit_spec(Unwrap(platform[i]), conda_packages_from_lockfile[i])
       IN  IF IsSome(r.error)
           THEN /\ UNCHANGED ees
                /\ Finish(i, Unwrap(r.error))
           ELSE /\ ees' = [ees EXCEPT ![i] = r.spec]
                /\ Goto(i, "WriteSpec")
    /\ UNCHANGED <<args, environment, platform, lock_file, packages, cursor,
                   conda_packages_from_lockfile, pypi_packages_from_lockfile,
                   warnings, reqs, files>>

\* Lines 195-204 and 72-84: the target is named and the spec written to it;
\* then line 206 decides whether requirements follow.
WriteSpec(i, io) ==
    /\ pc[i] = "WriteSpec"
    /\ LET target == conda_target(Unwrap(platform[i]), Unwrap(environment[i]))
           text   == explicit_spec_text(Unwrap(ees[i]))
       IN  /\ io \in FsWriteOutcomes(text)
           /\ files' = fs_write(files, target, text, io)
    /\ IF io # "ok"
       THEN Finish(i, Err("IoError", "environment file"))
       ELSE IF after_write_spec(Unwrap(args[i])) = "RenderRequirements"
       THEN Goto(i, "RenderRequirements")
       ELSE Finish(i, OkUnit)
    /\ UNCHANGED <<args, environment, platform, lock_file, packages, cursor,
                   conda_packages_from_lockfile, pypi_packages_from_lockfile,
                   warnings, ees, reqs>>

\* Lines 103-131: write_pypi_requirements renders every package into `reqs`,
\* or panics on a path that is not UTF-8.
RenderRequirements(i) ==
    /\ pc[i] = "RenderRequirements"
    /\ LET r == render_requirements(pypi_packages_from_lockfile[i], <<>>)
       IN  IF r.panicked
           THEN /\ UNCHANGED reqs
                /\ Finish(i, Panic("Could not convert path to str"))
           ELSE /\ reqs' = [reqs EXCEPT ![i] = Some(r.reqs)]
                /\ Goto(i, "WriteRequirements")
    /\ UNCHANGED <<args, environment, platform, lock_file, packages, cursor,
                   conda_packages_from_lockfile, pypi_packages_from_lockfile,
                   warnings, ees, files>>

\* A write of the requirements that, when it fails, removes the spec file
\* written before it (not the code: nothing is cleaned up).
WriteRequirementsWithCleanup(i, io) ==
    /\ pc[i] = "WriteRequirements"
    /\ LET pypi_target_path == pypi_target(Unwrap(platform[i]), Unwrap(environment[i]))
           spec_path == conda_target(Unwrap(platform[i]), Unwrap(environment[i]))
           text == Unwrap(reqs[i])
       IN  /\ io \in FsWriteOutcomes(text)
           /\ files' = IF io = "ok"
                       THEN fs_write(files, pypi_target_path, text, io)
                       ELSE [q \in (DOMAIN files) \ {spec_path} |-> files[q]]
    /\ IF io # "ok"
       THEN Finish(i, Err("IoError", "requirements file"))
       ELSE Finish(i, OkUnit)
    /\ UNCHANGED <<args, environment, platform, lock_file, packages, cursor,
                   conda_packages_from_lockfile, pypi_packages_from_lockfile,
                   warnings, ees, reqs>>

\* Lines 208-216 and 133-136: `reqs` is written to the requirements target;
\* line 219 returns Ok(()).
WriteRequirements(i, io) ==
    /\ pc[i] = "WriteRequirements"
    /\ LET pypi_target_path == pypi_target(Unwrap(platform[i]), Unwrap(environment[i]))
           text == Unwrap(reqs[i])
       IN  /\ io \in FsWriteOutcomes(text)
           /\ files' = fs_write(files, pypi_target_path, text, io)
    /\ IF io # "ok"
       THEN Finish(i, Err("IoError", "requirements file"))
       ELSE Finish(i, OkUnit)
    /\ UNCHANGED <<args, environment, platform, lock_file, packages, cursor,
                   conda_packages_from_lockfile, pypi_packages_from_lockfile,
                   warnings, ees, reqs>>

\* ------------------------------------------------------------------ specifications

\* One invocation of execute, over every Args and every lock.
Next ==
    \/ \E a \in ArgsSet : ResolveEnvironment(1, a)
    \/ ResolvePlatform(1)
    \/ \E r \in {None} \cup {Some(l) : l \in Locks(PackageLists)} : ObtainLock(1, r)
    \/ SelectSlice(1)
    \/ Classify(1)
    \/ BuildSpec(1)
    \/ \E io \in {"ok", "create_failed", "write_failed"} : WriteSpec(1, io)
    \/ RenderRequirements(1)
    \/ \E io \in {"ok", "create_failed", "write_failed"} : WriteRequirements(1, io)

Spec == Init /\ [][Next]_vars

\* ------------------------------------------------------------------ the renderer alone

\* Tokens of location texts.
LocAlphabet == {"direct+", "https://x/", "pkg"}

\* A text that parses as a url: a scheme-bearing token, with nothing before it
\* but direct+ prefixes (which extend the scheme).  Any other text is a path.
IsUrlText(t) ==
    \E k \in 1..Len(t) :
        /\ t[k] = "https://x/"
        /\ \A j \in 1..(k - 1) : t[j] = "direct+"

LocationTexts == Texts(LocAlphabet, 1, MaxLocLen)

\* UrlOrPath values: every text as the url or the path it parses to, and a
\* path that is not UTF-8.
Locations ==
    {IF IsUrlText(t) THEN UrlLocation(t) ELSE PathLocation(t, TRUE) : t \in LocationTexts}
    \cup {PathLocation(<<>>, FALSE)}

PackageHashesSet ==
    {None, Some(Sha256(DigestC)), Some(Md5Sha256(DigestA, DigestC)), Some(Md5(DigestA))}

\* Every PyPI package over those locations, flags and hashes.
RenderInputs ==
    {PypiPackage(l, e, h) : l \in Locations, e \in BOOLEAN, h \in PackageHashesSet}

\* Invocation 1 about to render the one PyPI package `p` of its slice, with
\* requirements requested: the state `execute` is in there.
InitRender ==
    \E p \in RenderInputs :
        LET a == [environment |-> None, platform |-> None,
                  ignore_pypi_errors |-> FALSE, write_pypi_requirements |-> TRUE]
            spec == Unwrap(build_explicit_spec(Linux64, <<>>).spec)
        IN  /\ pc = [i \in Invocations |->
                        IF i = 1 THEN "RenderRequirements" ELSE "ResolveEnvironment"]
            /\ args = [i \in Invocations |-> IF i = 1 THEN Some(a) ELSE None]
            /\ environment = [i \in Invocations |-> IF i = 1 THEN Some(DefaultEnv) ELSE None]
            /\ platform = [i \in Invocations |-> IF i = 1 THEN Some(Linux64) ELSE None]
            /\ lock_file = [i \in Invocations |->
                               IF i = 1 THEN Some(LockFile(EnvNames, Platforms, <<p>>))
                               ELSE None]
            /\ packages = [i \in Invocations |-> IF i = 1 THEN Some(<<p>>) ELSE None]
            /\ cursor = [i \in Invocations |-> IF i = 1 THEN 2 ELSE 1]
            /\ conda_packages_from_lockfile = [i \in Invocations |-> <<>>]
            /\ pypi_packages_from_lockfile = [i \in Invocations |-> IF i = 1 THEN <<p>> ELSE <<>>]
            /\ warnings = [i \in Invocations |-> 0]
            /\ ees = [i \in Invocations |-> IF i = 1 THEN Some(spec) ELSE None]
            /\ reqs = [i \in Invocations |-> None]
            /\ outcome = [i \in Invocations |-> None]
            /\ files = FilePut(<<>>, conda_target(Linux64, DefaultEnv), explicit_spec_text(spec))

NextRender ==
    \/ RenderRequirements(1)
    \/ \E io \in {"ok", "create_failed", "write_failed"} : WriteRequirements(1, io)

\* write_pypi_requirements on every single PyPI package.
SpecRender == InitRender /\ [][NextRender]_vars

\* ------------------------------------------------------------------ two invocations

\* Args of the concurrent runs: each environment and platform, with
\* requirements requested.
ConcArgs ==
    {a \in ArgsSet :
        /\ a.environment \in {None, Some(Arm64Env)}
        /\ a.write_pypi_requirements}

\* Locks of the concurrent runs.
ConcLocks ==
    Locks({<<CondaNumpy>>, <<CondaZlib, PypiWheel>>})

NextConc ==
    \E i \in Invocations :
        \/ \E a \in ConcArgs : ResolveEnvironment(i, a)
        \/ ResolvePlatform(i)
        \/ \E r \in {None} \cup {Some(l) : l \in ConcLocks} : ObtainLock(i, r)
        \/ SelectSlice(i)
        \/ Classify(i)
        \/ BuildSpec(i)
        \/ \E io \in {"ok", "create_failed", "write_failed"} : WriteSpec(i, io)
        \/ RenderRequirements(i)
        \/ \E io \in {"ok", "create_failed", "write_failed"} : WriteRequirements(i, io)

\* Two invocations of execute interleaved, in one working directory.
SpecConc == Init /\ [][NextConc]_vars

\* ------------------------------------------------------------------ vocabulary of the properties

\* The lowercase hex text of each digest, written out.
DigestHexText(d) ==
    CASE d = DigestA -> <<"0", "a", "f", "f">>
      [] d = DigestB -> <<"0", "0", "a", "b">>
      [] d = DigestC -> <<"d", "e", "a", "d">>

\* s ends with suf.
EndsWith(s, suf) ==
    Len(s) >= Len(suf) /\ SubSeq(s, Len(s) - Len(suf) + 1, Len(s)) = suf

\* The output paths of invocation i (once environment and platform are known).
Resolved(i) == IsSome(environment[i]) /\ IsSome(platform[i])

SpecPath(i) == conda_target(Unwrap(platform[i]), Unwrap(environment[i]))

ReqPath(i) == pypi_target(Unwrap(platform[i]), Unwrap(environment[i]))

\* Invocation i ended with the error `type`.
Failed(i, type) ==
    /\ IsSome(outcome[i])
    /\ Unwrap(outcome[i]).kind = "Err"
    /\ Unwrap(outcome[i]).error = type

Succeeded(i) == outcome[i] = Some(OkUnit)

Panicked(i) == IsSome(outcome[i]) /\ Unwrap(outcome[i]).kind = "Panic"

\* The classification loop of invocation i ran to its end and
\* build_explicit_spec has returned.
BuildActed(i) ==
    /\ IsSome(packages[i])
    /\ cursor[i] > Len(Unwrap(packages[i]))
    /\ pc[i] \notin {"Classify", "BuildSpec"}

\* Every package of the list has an md5.
AllHaveMd5(cps) == \A k \in 1..Len(cps) : IsSome(cps[k].md5)

\* The flags of invocation i.
IgnoreSet(i) == IsSome(args[i]) /\ Unwrap(args[i]).ignore_pypi_errors

WriteSet(i) == IsSome(args[i]) /\ Unwrap(args[i]).write_pypi_requirements

\* The spec file text for native packages cps on platform plat, written out.
ExpectedSpecText(plat, cps) ==
    <<"# Generated by pixi project export", "\n", "# platform: ">> \o plat
    \o <<"\n", "@EXPLICIT", "\n">>
    \o Concat([k \in 1..Len(cps) |->
                  cps[k].url.text \o <<"#">> \o DigestHexText(Unwrap(cps[k].md5))
                  \o <<"\n">>])

\* ------------------------------------------------------------------ C1

\* C1: build_explicit_spec returns the IntegrityError, naming a package
\* without md5, exactly when some package of its input has no md5; otherwise
\* it returns a spec, and every entry carries the digest of its own package
\* (none a substituted one).
C1_IntegrityErrorIffMissingDigest ==
    \A i \in Invocations :
        BuildActed(i) =>
            LET cps == conda_packages_from_lockfile[i]
                missing == {k \in 1..Len(cps) : ~IsSome(cps[k].md5)}
            IN  /\ Failed(i, "IntegrityError") <=> missing # {}
                /\ Failed(i, "IntegrityError") =>
                      /\ ees[i] = None
                      /\ \E k \in missing : Unwrap(outcome[i]).subject = cps[k].name
                /\ ~Failed(i, "IntegrityError") =>
                      /\ IsSome(ees[i])
                      /\ \A k \in 1..Len(Unwrap(ees[i]).packages) :
                            Unwrap(ees[i]).packages[k].url.fragment
                                = Some(DigestHexText(Unwrap(cps[k].md5)))

\* The build failed on a list whose first package has an md5 and whose second
\* has none.
C1_Witness ==
    /\ BuildActed(1)
    /\ Failed(1, "IntegrityError")
    /\ Len(conda_packages_from_lockfile[1]) = 2
    /\ IsSome(conda_packages_from_lockfile[1][1].md5)
    /\ ~IsSome(conda_packages_from_lockfile[1][2].md5)

\* ------------------------------------------------------------------ C2

\* C2: when every native package has an md5, the spec has one entry per
\* package, in input order, entry k being the url of package k with its
\* fragment replaced by the lowercase hex md5 of package k; the platform of the
\* spec is the requested platform.
C2_EntriesInInputOrder ==
    \A i \in Invocations :
        (BuildActed(i) /\ AllHaveMd5(conda_packages_from_lockfile[i])) =>
            LET cps == conda_packages_from_lockfile[i]
            IN  /\ IsSome(ees[i])
                /\ Unwrap(ees[i]).platform = platform[i]
                /\ Len(Unwrap(ees[i]).packages) = Len(cps)
                /\ \A k \in 1..Len(cps) :
                      Unwrap(ees[i]).packages[k].url
                          = Url(cps[k].url.text, Some(DigestHexText(Unwrap(cps[k].md5))))

\* A spec was built from two different packages, the first with a fragment
\* already on its url.
C2_Witness ==
    /\ BuildActed(1)
    /\ IsSome(ees[1])
    /\ conda_packages_from_lockfile[1] = <<CondaZlib, CondaNumpy>>

\* Duplicate locations stay: a spec built from the same package twice has it
\* twice.
C2_DuplicatesKept ==
    /\ BuildActed(1)
    /\ IsSome(ees[1])
    /\ conda_packages_from_lockfile[1] = <<CondaNumpy, CondaNumpy>>
    /\ Len(Unwrap(ees[1]).packages) = 2

\* ------------------------------------------------------------------ C3

\* The annotation text a remote package with hashes `h` must get: sha256 for
\* Sha256 and Md5Sha256, md5 for Md5 alone.
ExpectedAnnotation(h) ==
    IF Unwrap(h).variant = "Md5"
    THEN <<"--hash=", "md5:">> \o DigestHexText(Unwrap(h).md5)
    ELSE <<"--hash=", "sha256:">> \o DigestHexText(Unwrap(h).sha256)

\* Invocation i has rendered the single PyPI package of its slice.
RenderedOne(i) == IsSome(reqs[i]) /\ Len(pypi_packages_from_lockfile[i]) = 1

\* C3: a local path never gets a --hash= annotation, whatever hashes the
\* package has; a url with hashes gets exactly one, at the end of the line
\* (sha256 unless the record is Md5 alone); a url without hashes gets none, and
\* rendering it does not fail.
C3_HashAnnotation ==
    \A i \in Invocations :
        /\ RenderedOne(i) =>
              LET p    == pypi_packages_from_lockfile[i][1]
                  line == Unwrap(reqs[i])
                  n    == Count(line, "--hash=")
              IN  /\ p.location.kind = "Path" => n = 0
                  /\ (p.location.kind = "Url" /\ IsSome(p.hash)) =>
                        /\ n = 1
                        /\ EndsWith(line, <<" ">> \o ExpectedAnnotation(p.hash) \o <<"\n">>)
                  /\ (p.location.kind = "Url" /\ ~IsSome(p.hash)) => n = 0
        /\ (/\ Len(pypi_packages_from_lockfile[i]) = 1
            /\ pypi_packages_from_lockfile[i][1].location.kind = "Url"
            /\ pc[i] \in {"WriteRequirements", "Done"}) =>
              /\ IsSome(reqs[i])
              /\ ~Panicked(i)

\* A url package with the combined Md5Sha256 record was rendered.
C3_Witness ==
    /\ RenderedOne(1)
    /\ pypi_packages_from_lockfile[1][1].location.kind = "Url"
    /\ pypi_packages_from_lockfile[1][1].hash = Some(Md5Sha256(DigestA, DigestC))
    /\ Count(Unwrap(reqs[1]), "--hash=") = 1

\* A local path carrying hashes was rendered, with no annotation.
C3_PathWithHashes ==
    /\ RenderedOne(1)
    /\ pypi_packages_from_lockfile[1][1].location.kind = "Path"
    /\ IsSome(pypi_packages_from_lockfile[1][1].hash)

\* ------------------------------------------------------------------ C4

\* The location text of a rendered line: what lies between the -e marker, if
\* the package is editable, and the hash annotation or the end of the line.
RenderedLocation(line, editable) ==
    LET hs   == {k \in 1..Len(line) : line[k] = "--hash="}
        last == IF hs = {} THEN Len(line) - 1
                ELSE (CHOOSE k \in hs : \A j \in hs : k <= j) - 2
    IN  SubSeq(line, IF editable THEN 2 ELSE 1, last)

\* s without its leading direct+ prefix, when it begins with one; the rest of
\* s, later occurrences of the prefix included, unchanged.
StripPrefixOnce(s) ==
    IF StartsWith(s, DirectPrefix) THEN SubSeq(s, Len(DirectPrefix) + 1, Len(s)) ELSE s

C4_SpecUrlsKeepPrefix ==
    \A i \in Invocations :
        IsSome(ees[i]) =>
            \A k \in 1..Len(Unwrap(ees[i]).packages) :
                Unwrap(ees[i]).packages[k].url.text
                    = conda_packages_from_lockfile[i][k].url.text

\* ------------------------------------------------------------------ C5

\* The slice of invocation i holds a PyPI package and no policy flag is set.
UnsupportedPypi(i) ==
    /\ IsSome(packages[i])
    /\ \E k \in 1..Len(Unwrap(packages[i])) : IsPypi(Unwrap(packages[i])[k])
    /\ ~IgnoreSet(i)
    /\ ~WriteSet(i)

\* C5: with a PyPI package in the slice and neither flag set, execute never
\* gets past classification and ends with the ConfigurationError, whatever the
\* native packages are and wherever the PyPI package sits; no file is written.
C5_UnsupportedPypiFails ==
    \A i \in Invocations :
        UnsupportedPypi(i) =>
            /\ pc[i] \in {"Classify", "Done"}
            /\ pc[i] = "Done" => Failed(i, "ConfigurationError")
            /\ DOMAIN files = {}

\* The ConfigurationError on a slice whose first package is native and has no
\* md5, the PyPI package coming second.
C5_Witness ==
    /\ UnsupportedPypi(1)
    /\ Failed(1, "ConfigurationError")
    /\ Len(Unwrap(packages[1])) = 2
    /\ Unwrap(packages[1])[1] = CondaNoMd5
    /\ IsPypi(Unwrap(packages[1])[2])

\* ------------------------------------------------------------------ C6

\* C6: a failure ends the run with nothing of the failing step or of a later
\* step written and nothing removed.  An error before the spec is written
\* (environment, lock, slice, classification, build) leaves no file at all; a
\* failed write of the spec leaves no requirements file and not the spec; a
\* panic or a failed write in write_pypi_requirements leaves the spec file
\* with its full text and not the requirements.
C6_FailureLeavesEarlierArtifactsOnly ==
    \A i \in Invocations :
        IsSome(outcome[i]) =>
            /\ pc[i] = "Done"
            /\ (\/ Failed(i, "NotFoundError")
                \/ Failed(i, "LockError")
                \/ Failed(i, "ConfigurationError")
                \/ Failed(i, "IntegrityError")) => DOMAIN files = {}
            /\ (Failed(i, "IoError") /\ Unwrap(outcome[i]).subject = "environment file") =>
                  /\ DOMAIN files \subseteq {SpecPath(i)}
                  /\ FileAt(files, SpecPath(i)) # Some(explicit_spec_text(Unwrap(ees[i])))
            /\ (Failed(i, "IoError") /\ Unwrap(outcome[i]).subject = "requirements file") =>
                  /\ FileAt(files, SpecPath(i)) = Some(explicit_spec_text(Unwrap(ees[i])))
                  /\ FileAt(files, ReqPath(i)) # reqs[i]
            /\ Panicked(i) =>
                  /\ FileAt(files, SpecPath(i)) = Some(explicit_spec_text(Unwrap(ees[i])))
                  /\ FileAt(files, ReqPath(i)) = None

\* The write of the requirements failed after a spec of two packages was
\* written.
C6_Witness ==
    /\ Failed(1, "IoError")
    /\ Unwrap(outcome[1]).subject = "requirements file"
    /\ Len(Unwrap(ees[1]).packages) = 2
    /\ FileAt(files, SpecPath(1)) = Some(explicit_spec_text(Unwrap(ees[1])))

\* Scenario B: one native package without md5; the IntegrityError, no file.
C6_ScenarioB ==
    /\ Failed(1, "IntegrityError")
    /\ packages[1] = Some(<<CondaNoMd5>>)
    /\ DOMAIN files = {}

\* ------------------------------------------------------------------ C7

\* The slice of invocation i is selected and its native packages all have md5.
DigestsComplete(i) ==
    /\ IsSome(packages[i])
    /\ AllHaveMd5(SelectSeq(Unwrap(packages[i]), IsConda))

\* C7: when the native packages all have md5: with --ignore-pypi-errors the
\* run can only fail in writing the spec, and when it succeeds there is one
\* warning per PyPI package, the spec file holds the native packages in input
\* order and there is no requirements file; a requirements file exists only
\* under --write-pypi-requirements, and after a successful run it holds one
\* line, ending in a newline, per PyPI package of the slice, in input order.
C7_PolicyOutputs ==
    \A i \in Invocations :
        (DigestsComplete(i) /\ pc[i] = "Done") =>
            LET slice  == Unwrap(packages[i])
                native == SelectSeq(slice, IsConda)
                pypi   == SelectSeq(slice, IsPypi)
            IN  /\ IgnoreSet(i) =>
                      /\ Succeeded(i) \/ Failed(i, "IoError")
                      /\ Succeeded(i) =>
                            /\ warnings[i] = Len(pypi)
                            /\ DOMAIN files = {SpecPath(i)}
                /\ Succeeded(i) =>
                      FileAt(files, SpecPath(i))
                          = Some(ExpectedSpecText(Unwrap(platform[i]), native))
                /\ ~WriteSet(i) => FileAt(files, ReqPath(i)) = None
                /\ (Succeeded(i) /\ WriteSet(i)) =>
                      /\ FileAt(files, ReqPath(i))
                            = Some(Concat([k \in 1..Len(pypi) |-> requirement_line(pypi[k])]))
                      /\ Count(files[ReqPath(i)], "\n") = Len(pypi)
                /\ (Succeeded(i) /\ ~WriteSet(i) /\ ~IgnoreSet(i)) =>
                      /\ pypi = <<>>
                      /\ DOMAIN files = {SpecPath(i)}

\* Scenario C: one native and one PyPI package, --ignore-pypi-errors: success,
\* one warning, the spec file alone.
C7_Witness ==
    /\ Succeeded(1)
    /\ IgnoreSet(1)
    /\ packages[1] = Some(<<CondaNumpy, PypiWheel>>)
    /\ warnings[1] = 1
    /\ DOMAIN files = {SpecPath(1)}

\* Scenario D: the same with --write-pypi-requirements and an editable local
\* path without hashes: the requirements file is exactly "-e <path>\n".
C7_ScenarioD ==
    /\ Succeeded(1)
    /\ WriteSet(1)
    /\ packages[1] = Some(<<CondaNumpy, PypiEditablePath>>)
    /\ FileAt(files, ReqPath(1)) = Some(<<"-e ", "./", "pkg", "\n">>)

\* ------------------------------------------------------------------ C9

\* Invocation i entered write_pypi_requirements with a PyPI package whose
\* path is not UTF-8, and is over.
NonUtf8Rendered(i) ==
    /\ pc[i] = "Done"
    /\ WriteSet(i)
    /\ IsSome(ees[i])
    /\ FileAt(files, SpecPath(i)) = Some(explicit_spec_text(Unwrap(ees[i])))
    /\ \E k \in 1..Len(pypi_packages_from_lockfile[i]) :
          /\ pypi_packages_from_lockfile[i][k].location.kind = "Path"
          /\ ~pypi_packages_from_lockfile[i][k].location.utf8

\* C9 as stated: the export ends with an error value returned by execute, and
\* the requirements file is not written.
C9_ReturnedAsError ==
    \A i \in Invocations :
        NonUtf8Rendered(i) =>
            /\ IsSome(outcome[i])
            /\ Unwrap(outcome[i]).kind = "Err"
            /\ FileAt(files, ReqPath(i)) = None

\* C9 amended: the export ends in a panic raised while rendering (no error
\* value is returned), the requirements file is not written, and the spec file
\* written before stays.
C9_PanicsWithoutRequirements ==
    \A i \in Invocations :
        NonUtf8Rendered(i) =>
            /\ outcome[i] = Some(Panic("Could not convert path to str"))
            /\ FileAt(files, ReqPath(i)) = None
            /\ FileAt(files, SpecPath(i)) = Some(explicit_spec_text(Unwrap(ees[i])))

\* The panic, on a slice whose first PyPI package renders and whose second
\* has the path that is not UTF-8.
C9_Witness ==
    /\ NonUtf8Rendered(1)
    /\ Panicked(1)
    /\ pypi_packages_from_lockfile[1] = <<PypiWheel, PypiNonUtf8Path>>

\* ------------------------------------------------------------------ C10

\* The place of each step in the order of `execute`.
StepRank(step) ==
    CASE step = "ResolveEnvironment" -> 1
      [] step = "ResolvePlatform" -> 2
      [] step = "ObtainLock" -> 3
      [] step = "SelectSlice" -> 4
      [] step = "Classify" -> 5
      [] step = "BuildSpec" -> 6
      [] step = "WriteSpec" -> 7
      [] step = "RenderRequirements" -> 8
      [] step = "WriteRequirements" -> 9
      [] step = "Done" -> 10

\* C10: every step of an invocation stays in place only to classify the next
\* package, and otherwise moves to the step that follows or to Done (to Done
\* without an error only from the last step taken); the requirements steps are
\* entered only when requirements were requested; the lock is in hand from
\* classification on; the spec file is written only at WriteSpec, after every
\* package of the slice is classified and the spec built; the requirements
\* file is written only at WriteRequirements, with the spec file on disk.
C10_LinearOrder ==
    [][\A i \in Invocations :
          (pc'[i] # pc[i] \/ cursor'[i] # cursor[i] \/ outcome'[i] # outcome[i]) =>
              /\ pc'[i] = pc[i] => (pc[i] = "Classify" /\ cursor'[i] = cursor[i] + 1)
              /\ pc'[i] # pc[i] =>
                    \/ StepRank(pc'[i]) = StepRank(pc[i]) + 1
                    \/ pc'[i] = "Done" /\ ~Succeeded(i)'
                    \/ /\ pc'[i] = "Done"
                       /\ pc[i] = "WriteSpec"
                       /\ ~WriteSet(i)
              /\ pc'[i] \in {"RenderRequirements", "WriteRequirements"} => WriteSet(i)
              /\ StepRank(pc'[i]) \in 5..9 => IsSome(lock_file[i])
              /\ files' # files =>
                    /\ pc[i] \in {"WriteSpec", "WriteRequirements"}
                    /\ pc[i] = "WriteSpec" =>
                          /\ cursor[i] = Len(Unwrap(packages[i])) + 1
                          /\ IsSome(ees[i])
                          /\ FileAt(files, SpecPath(i)) = None
                          /\ FileAt(files, ReqPath(i)) = None
                    /\ pc[i] = "WriteRequirements" =>
                          /\ FileAt(files, SpecPath(i))
                                = Some(explicit_spec_text(Unwrap(ees[i])))
                          /\ FileAt(files', SpecPath(i)) = FileAt(files, SpecPath(i))
      ]_vars

\* A run that took every step: two packages classified, both files written.
C10_Witness ==
    /\ pc[1] = "Done"
    /\ Succeeded(1)
    /\ WriteSet(1)
    /\ Len(Unwrap(packages[1])) = 2
    /\ FileAt(files, ReqPath(1)) = reqs[1]

\* ------------------------------------------------------------------ C8

\* The paths invocation i writes.
OutputPaths(i) == {SpecPath(i), ReqPath(i)}

\* C8: two invocations whose (environment, platform) differ write disjoint
\* sets of paths, and whatever the interleaving, an invocation that succeeded
\* finds in its files exactly the texts it produced.
C8_DistinctTargetsDoNotInterfere ==
    \A i, j \in Invocations :
        (/\ i # j
         /\ Resolved(i)
         /\ Resolved(j)
         /\ <<environment[i], platform[i]>> # <<environment[j], platform[j]>>) =>
            /\ OutputPaths(i) \cap OutputPaths(j) = {}
            /\ Succeeded(i) =>
                  /\ FileAt(files, SpecPath(i)) = Some(explicit_spec_text(Unwrap(ees[i])))
                  /\ WriteSet(i) => FileAt(files, ReqPath(i)) = reqs[i]

\* Both invocations succeeded, on the same platform and different
\* environments, from different locks.
C8_Witness ==
    /\ Succeeded(1)
    /\ Succeeded(2)
    /\ platform[1] = platform[2]
    /\ environment[1] # environment[2]
    /\ packages[1] # packages[2]

\* Same environment and platform: the paths are the same, and the later writer
\* replaces what the earlier one wrote.
C8_SameTargetOverwritten ==
    /\ Succeeded(1)
    /\ Succeeded(2)
    /\ <<environment[1], platform[1]>> = <<environment[2], platform[2]>>
    /\ OutputPaths(1) = OutputPaths(2)
    /\ FileAt(files, SpecPath(1)) # Some(explicit_spec_text(Unwrap(ees[1])))

====
